---- MODULE Spec2Model ----
(***************************************************************************)
(* Model of the statistical decision engine of dbbench-tools               *)
(* (src/statstest.py, duplicated in src/abstats.py): DoTest and the        *)
(* functions it calls.                                                     *)
(*                                                                         *)
(* Numbers.  The program computes in floating point; the model computes in *)
(* exact rationals kept as integer numerators and denominators.            *)
(*   - a measurement is a natural number;                                  *)
(*   - a mean is the pair <<sum, n>>;                                      *)
(*   - args.confidence is in thousandths (999 is 0.999);                   *)
(*   - args.max_interval_percent is in tenths (1 is 0.10);                 *)
(*   - a histogram limit is a numerator over LimitDen(numbins);            *)
(*   - the scipy quantile functions are tables of squared quantiles in     *)
(*     thousandths, one row per confidence level of Confidences;           *)
(*   - a p-value is "NaN" or a number of thousandths, rounded down to the  *)
(*     significance levels 1 - c of the confidences c of Confidences, so   *)
(*     that  p < 1 - c  is decided as the program decides it.              *)
(* The program is Python 2 (reload(sys), iteritems; src/setup.py:72-74):   *)
(* the quotient of two ints is the floor of the exact quotient.            *)
(***************************************************************************)
EXTENDS Integers, Sequences, FiniteSets, TLC

\* ------------------------------------------------------------------ bounds
\* Longest sample drawn from the small measurements.
MaxLen == 3
\* Largest small measurement.
MaxVal == 2
\* Largest args.histogram_buckets.
MaxBuckets == 3
\* Largest bucket count of a lone GetBucketChar call.
MaxCount == 20

\* ------------------------------------------------------------ arithmetic
RECURSIVE SeqSum(_)
SeqSum(s) == IF s = <<>> THEN 0 ELSE Head(s) + SeqSum(Tail(s))

RECURSIVE SeqSumSq(_)
SeqSumSq(s) == IF s = <<>> THEN 0 ELSE Head(s) * Head(s) + SeqSumSq(Tail(s))

\* Python's min() and max() of a non-empty list.
SeqMin(s) == CHOOSE x \in {s[i] : i \in DOMAIN s} : \A i \in DOMAIN s : x <= s[i]
SeqMax(s) == CHOOSE x \in {s[i] : i \in DOMAIN s} : \A i \in DOMAIN s : x >= s[i]

\* numpy.mean(values) as the pair <<sum, n>>.
Mean(values) == <<SeqSum(values), Len(values)>>

\* n times the sum of the squared deviations from the mean: n*SS = n*sum(x^2) - sum(x)^2.
Dev(values) == Len(values) * SeqSumSq(values) - SeqSum(values) * SeqSum(values)

\* The sign of a/b - c/d for a, c >= 0 and b, d > 0, by the continued
\* fraction expansion of both sides (no product is formed, nothing overflows).
RECURSIVE FracCmp(_, _, _, _)
FracCmp(a, b, c, d) ==
    LET qa == a \div b
        qc == c \div d
        ra == a % b
        rc == c % d
    IN  IF qa > qc THEN 1
        ELSE IF qa < qc THEN -1
        ELSE IF ra = 0 /\ rc = 0 THEN 0
        ELSE IF ra = 0 THEN -1
        ELSE IF rc = 0 THEN 1
        ELSE FracCmp(d, rc, b, ra)

\* ------------------------------------------------------- scipy.stats.t
\* The values of args.confidence the model draws (thousandths); 999 is the
\* default of --confidence.
Confidences == {250, 900, 999}

\* Rows of the quantile tables: degrees of freedom 1..TableDf.
TableDf == 8
ClipDf(df) == IF df < 1 THEN 1 ELSE IF df > TableDf THEN TableDf ELSE df

\* stats.t.ppf(confidence, df): the sign, and the square in thousandths.
\* stats.t.ppf(q, 0) is NaN.  t.ppf(0.25, df) is negative.
TPpfSq(confidence, df) ==
    CASE confidence = 250 -> <<1000, 667, 585, 549, 528, 515, 506, 499>>[ClipDf(df)]
      [] confidence = 900 -> <<9472, 3556, 2682, 2351, 2178, 2073, 2002, 1951>>[ClipDf(df)]
      [] confidence = 999 ->
            <<101320515, 498501, 104337, 51455, 34733, 27119, 22899, 20257>>[ClipDf(df)]
TPpfSign(confidence) == IF confidence < 500 THEN -1 ELSE 1

\* The two-sided critical value at significance level alpha (thousandths),
\* stats.t.isf(alpha/2, df), squared, in thousandths: |t| > crit iff
\* 2 * t.sf(|t|, df) < alpha.
TCritSq(alpha, df) ==
    CASE alpha = 750 -> <<172, 133, 122, 117, 113, 111, 110, 109>>[ClipDf(df)]
      [] alpha = 100 -> <<39863, 8526, 5538, 4545, 4060, 3776, 3589, 3458>>[ClipDf(df)]
      [] alpha = 1 ->
            <<405284000, 998500, 167029, 74137, 47181, 35507, 29245, 25415>>[ClipDf(df)]

\* ---------------------------------------------- GetConfidenceIntervalWidth
\* stats.sem(values, ddof=len(values)-1) * stats.t.ppf(confidence, len(values)-1).
\* sem with ddof = n-1 is sqrt(SS / (n - (n-1))) / sqrt(n), so sem^2 = SS/n =
\* Dev/n^2.  The width is kept as its sign and the factors of its square:
\* width^2 = (dev / n^2) * (tsq / 1000).  One value gives 0 * NaN = NaN.
GetConfidenceIntervalWidth(values, confidence) ==
    IF Len(values) <= 1
    THEN [nan |-> TRUE, sign |-> 0, dev |-> 0, n |-> Len(values), tsq |-> 0]
    ELSE [nan |-> FALSE,
          sign |-> IF Dev(values) = 0 THEN 0 ELSE TPpfSign(confidence),
          dev |-> Dev(values),
          n |-> Len(values),
          tsq |-> TPpfSq(confidence, Len(values) - 1)]

\* error > mean * max_interval_percent, the comparison of CheckVariance
\* (mean >= 0, max_interval_percent in tenths).  NaN compares false.
\* For a positive error: dev*tsq/(n^2*1000) > sum^2*mip^2/(n^2*100).
WidthExceeds(error, mean, mip) ==
    /\ ~error.nan
    /\ error.sign > 0
    /\ FracCmp(error.tsq, 1000, mean[1] * mean[1] * mip * mip, 100 * error.dev) > 0

\* GetMeanStr: "%.2f±%.2f" % (mean, error), kept as the two numbers printed.
GetMeanStr(values, confidence) ==
    [mean |-> Mean(values), error |-> GetConfidenceIntervalWidth(values, confidence)]

\* ------------------------------------------------------------ GetBucketChar
\* len(blocks): the glyph levels ' ', U+2581 .. U+2588.
NumBlocks == 9

\* GetBucketChar without the rule that shows a non-empty bucket.
GetBucketCharProportional(count, maxCount) ==
    (count * (NumBlocks - 1)) \div maxCount

\* bi = int(float(count)/float(maxCount)*(len(blocks) - 1)), and a non-empty
\* bucket is shown even if it rounds to level 0.  The result is the index bi
\* of the glyph in blocks.  maxCount = 0 is a ZeroDivisionError (HistRaises).
GetBucketChar(count, maxCount) ==
    LET bi == (count * (NumBlocks - 1)) \div maxCount
    IN  IF count > 0 /\ bi = 0 THEN 1 ELSE bi

\* ------------------------------------------------------- stats.histogram
\* Histogram limits are numerators over LimitDen(numbins) = 2*(numbins - 1),
\* the denominator of the padding s of LogPerformanceStats.
LimitDen(numbins) == 2 * (numbins - 1)

\* numpy.histogram's range: a zero-width range (mn == mx) is widened to
\* (mn - 0.5, mx + 0.5).
NpRange(limits, numbins) ==
    IF limits[1] = limits[2]
    THEN <<limits[1] - (numbins - 1), limits[2] + (numbins - 1)>>
    ELSE limits

\* The bin (1..numbins) numpy.histogram counts x in, 0 when x is outside the
\* range: bins are half-open, the last one is closed.
BinOf(x, limits, numbins) ==
    LET r == NpRange(limits, numbins)
        xn == x * LimitDen(numbins)
    IN  IF xn < r[1] \/ xn > r[2] THEN 0
        ELSE IF xn = r[2] THEN numbins
        ELSE ((xn - r[1]) * numbins) \div (r[2] - r[1]) + 1

\* buckets of stats.histogram(array, defaultlimits=limits, numbins=numbins).
Buckets(array, limits, numbins) ==
    [b \in 1..numbins |->
        Cardinality({i \in DOMAIN array : BinOf(array[i], limits, numbins) = b})]

MaxBucket(buckets) ==
    CHOOSE m \in {buckets[b] : b \in DOMAIN buckets} :
        \A b \in DOMAIN buckets : m >= buckets[b]

\* GetBucketChar(count, max(buckets)) divides by zero when no value of the
\* array lies in the range.
HistRaises(array, limits, numbins) ==
    MaxBucket(Buckets(array, limits, numbins)) = 0

\* GetHistogramString printing the right edge of the last bucket.
GetHistogramStringLastEdge(array, limits, numbins) ==
    LET buckets == Buckets(array, limits, numbins)
        r == NpRange(limits, numbins)
    IN  [low |-> <<limits[1], LimitDen(numbins)>>,
         glyphs |-> [b \in 1..numbins |-> GetBucketChar(buckets[b], MaxBucket(buckets))],
         high |-> <<limits[1] * numbins + (r[2] - r[1]) * numbins,
                    LimitDen(numbins) * numbins>>]

\* GetHistogramString: the left bound printed is low_range = defaultlimits[0];
\* the right bound printed is low_range + binsize * (len(buckets) + 1) with
\* binsize = (mx - mn) / numbins of the (widened) numpy range; both are kept
\* as <<numerator, denominator>>.  glyphs[b] is the index in blocks.
GetHistogramString(array, limits, numbins) ==
    LET buckets == Buckets(array, limits, numbins)
        r == NpRange(limits, numbins)
    IN  [low |-> <<limits[1], LimitDen(numbins)>>,
         glyphs |-> [b \in 1..numbins |-> GetBucketChar(buckets[b], MaxBucket(buckets))],
         high |-> <<limits[1] * numbins + (r[2] - r[1]) * (numbins + 1),
                    LimitDen(numbins) * numbins>>]

\* ----------------------------------------------------- LogPerformanceStats
\* The Python 2 value of the expression (1/2).
PyHalf == 1 \div 2

\* defaultlimits = (minExecution - s, maxExecution + s) with
\* s = (1/2) * (maxExecution - minExecution) / (args.histogram_buckets - 1),
\* as numerators over LimitDen(numbins).
DefaultLimits(minExecution, maxExecution, numbins) ==
    LET s == 2 * PyHalf * (maxExecution - minExecution)
    IN  <<minExecution * LimitDen(numbins) - s, maxExecution * LimitDen(numbins) + s>>

\* The old group's limits taken from the old group alone.
OldLimitsOwn(oldExecutions, newExecutions, numbins) ==
    DefaultLimits(SeqMin(oldExecutions), SeqMax(oldExecutions), numbins)
\* The old group's limits taken from the new group alone.
OldLimitsOfNew(oldExecutions, newExecutions, numbins) ==
    DefaultLimits(SeqMin(newExecutions), SeqMax(newExecutions), numbins)

\* The limits LogPerformanceStats gives the histogram of each group.
NewLimits(oldExecutions, newExecutions, numbins) ==
    DefaultLimits(SeqMin(<<SeqMin(newExecutions), SeqMin(oldExecutions)>>),
                  SeqMax(<<SeqMax(newExecutions), SeqMax(oldExecutions)>>), numbins)
OldLimits(oldExecutions, newExecutions, numbins) ==
    DefaultLimits(SeqMin(<<SeqMin(newExecutions), SeqMin(oldExecutions)>>),
                  SeqMax(<<SeqMax(newExecutions), SeqMax(oldExecutions)>>), numbins)

\* LogPerformanceStats raises before it logs anything: min([]) is a
\* ValueError, histogram_buckets = 1 a ZeroDivisionError in s, and a
\* histogram without any value in range a ZeroDivisionError in GetBucketChar.
LogPerformanceStatsRaises(a, oldExecutions, newExecutions) ==
    \/ newExecutions = <<>>
    \/ oldExecutions = <<>>
    \/ a.histogram_buckets - 1 = 0
    \/ HistRaises(newExecutions,
                  NewLimits(oldExecutions, newExecutions, a.histogram_buckets),
                  a.histogram_buckets)
    \/ HistRaises(oldExecutions,
                  OldLimits(oldExecutions, newExecutions, a.histogram_buckets),
                  a.histogram_buckets)

\* One logging.info line of LogPerformanceStats.
StatsLine(group, meanStr, hist) ==
    [level |-> "info", msg |-> "execution time", group |-> group,
     data |-> [mean |-> meanStr.mean, error |-> meanStr.error, hist |-> hist]]

\* LogPerformanceStats printing each label with the other parameter's data.
LogPerformanceStatsCrossed(a, oldGrp, oldExecutions, newGrp, newExecutions) ==
    <<StatsLine(oldGrp, GetMeanStr(newExecutions, a.confidence),
                GetHistogramString(newExecutions,
                    NewLimits(oldExecutions, newExecutions, a.histogram_buckets),
                    a.histogram_buckets)),
      StatsLine(newGrp, GetMeanStr(oldExecutions, a.confidence),
                GetHistogramString(oldExecutions,
                    OldLimits(oldExecutions, newExecutions, a.histogram_buckets),
                    a.histogram_buckets))>>

\* The two lines LogPerformanceStats logs, the newGroup parameter's first.
LogPerformanceStats(a, oldGrp, oldExecutions, newGrp, newExecutions) ==
    <<StatsLine(newGrp, GetMeanStr(newExecutions, a.confidence),
                GetHistogramString(newExecutions,
                    NewLimits(oldExecutions, newExecutions, a.histogram_buckets),
                    a.histogram_buckets)),
      StatsLine(oldGrp, GetMeanStr(oldExecutions, a.confidence),
                GetHistogramString(oldExecutions,
                    OldLimits(oldExecutions, newExecutions, a.histogram_buckets),
                    a.histogram_buckets))>>

\* ------------------------------------------------------------ CheckVariance
InsufficientLine ==
    [level |-> "error", msg |-> "Insufficient samples to check variance.",
     group |-> "", data |-> <<>>]
WidthLine(group, error, mean) ==
    [level |-> "error", msg |-> "confidence interval width is more than", group |-> group,
     data |-> [error |-> error, mean |-> mean]]

\* CheckVariance judging each group against the other group's mean.
CheckVarianceCrossMean(a, newGrp, newExecutions, oldGrp, oldExecutions) ==
    IF Len(newExecutions) <= 1 \/ Len(oldExecutions) <= 1
    THEN [passed |-> FALSE, lines |-> <<InsufficientLine>>]
    ELSE LET newError == GetConfidenceIntervalWidth(newExecutions, a.confidence)
             oldError == GetConfidenceIntervalWidth(oldExecutions, a.confidence)
             newMean == Mean(newExecutions)
             oldMean == Mean(oldExecutions)
             oldBad == WidthExceeds(oldError, newMean, a.max_interval_percent)
             newBad == WidthExceeds(newError, oldMean, a.max_interval_percent)
         IN  [passed |-> ~oldBad /\ ~newBad,
              lines |-> (IF oldBad THEN <<WidthLine(oldGrp, oldError, oldMean)>> ELSE <<>>)
                        \o (IF newBad THEN <<WidthLine(newGrp, newError, newMean)>> ELSE <<>>)]

\* CheckVariance without the guard on the number of observations.
CheckVarianceUnguarded(a, newGrp, newExecutions, oldGrp, oldExecutions) ==
    LET newError == GetConfidenceIntervalWidth(newExecutions, a.confidence)
        oldError == GetConfidenceIntervalWidth(oldExecutions, a.confidence)
        newMean == Mean(newExecutions)
        oldMean == Mean(oldExecutions)
        oldBad == WidthExceeds(oldError, oldMean, a.max_interval_percent)
        newBad == WidthExceeds(newError, newMean, a.max_interval_percent)
    IN  [passed |-> ~oldBad /\ ~newBad,
         lines |-> (IF oldBad THEN <<WidthLine(oldGrp, oldError, oldMean)>> ELSE <<>>)
                   \o (IF newBad THEN <<WidthLine(newGrp, newError, newMean)>> ELSE <<>>)]

\* CheckVariance: the value returned and the lines logged, the old group's first.
CheckVariance(a, newGrp, newExecutions, oldGrp, oldExecutions) ==
    IF Len(newExecutions) <= 1 \/ Len(oldExecutions) <= 1
    THEN [passed |-> FALSE, lines |-> <<InsufficientLine>>]
    ELSE LET newError == GetConfidenceIntervalWidth(newExecutions, a.confidence)
             oldError == GetConfidenceIntervalWidth(oldExecutions, a.confidence)
             newMean == Mean(newExecutions)
             oldMean == Mean(oldExecutions)
             oldBad == WidthExceeds(oldError, oldMean, a.max_interval_percent)
             newBad == WidthExceeds(newError, newMean, a.max_interval_percent)
         IN  [passed |-> ~oldBad /\ ~newBad,
              lines |-> (IF oldBad THEN <<WidthLine(oldGrp, oldError, oldMean)>> ELSE <<>>)
                        \o (IF newBad THEN <<WidthLine(newGrp, newError, newMean)>> ELSE <<>>)]

\* -------------------------------------------------------- stats.ttest_ind
RECURSIVE Gcd(_, _)
Gcd(x, y) == IF y = 0 THEN x ELSE Gcd(y, x % y)

NaN == [nan |-> TRUE, val |-> 0]
PVal(v) == [nan |-> FALSE, val |-> v]

\* The significance levels 1 - confidence the p-value is compared with.
Alphas == {1000 - c : c \in Confidences}
\* The p-values of the model: NaN, and thousandths rounded down to Alphas.
PValues == {NaN} \cup {PVal(v) : v \in {0} \cup Alphas}

\* p of stats.ttest_ind(a, b, equal_var=False), Welch's test:
\*   v = var(ddof=1), vn = v/n, t = (mean(a) - mean(b)) / sqrt(vn1 + vn2),
\*   df = (vn1 + vn2)^2 / (vn1^2/(n1-1) + vn2^2/(n2-1)), NaN replaced by 1,
\*   p = 2 * t.sf(|t|, df).
\* A group of one value has v = NaN, so p = NaN.  Two zero variances give
\* t = 0/0 = NaN (equal means) or t = +-inf, p = 0.  Otherwise, with wa and
\* wb the numerators of vn1 and vn2 over n1^2 n2^2 (n1-1)(n2-1), p is the
\* largest level g with t^2 <= crit(g, df)^2, df rounded to the nearest row.
TTestInd(a, b) ==
    LET n1 == Len(a)
        n2 == Len(b)
        d == SeqSum(a) * n2 - SeqSum(b) * n1
        wa == Dev(a) * n2 * n2 * (n2 - 1)
        wb == Dev(b) * n1 * n1 * (n1 - 1)
        g == Gcd(wa, wb)
        ra == wa \div g
        rb == wb \div g
        dfNum == (ra + rb) * (ra + rb) * (n1 - 1) * (n2 - 1)
        dfDen == ra * ra * (n2 - 1) + rb * rb * (n1 - 1)
        df == (2 * dfNum + dfDen) \div (2 * dfDen)
        tNum == d * d * (n1 - 1) * (n2 - 1)
        atLeast == {0} \cup {al \in Alphas : FracCmp(tNum, wa + wb, TCritSq(al, df), 1000) <= 0}
    IN  IF n1 <= 1 \/ n2 <= 1 THEN NaN
        ELSE IF wa + wb = 0 THEN (IF d = 0 THEN NaN ELSE PVal(0))
        ELSE PVal(CHOOSE v \in atLeast : \A w \in atLeast : v >= w)

\* ---------------------------------------------------------------- CheckMean
\* The regression as a percentage of the new mean.
RegressionPctOfNew(newMean, oldMean) ==
    <<(newMean[1] * oldMean[2] - oldMean[1] * newMean[2]) * 100, newMean[1] * oldMean[2]>>

\* regressionPct = (newMean - oldMean) / oldMean * 100 as <<numerator, denominator>>.
RegressionPct(newMean, oldMean) ==
    <<(newMean[1] * oldMean[2] - oldMean[1] * newMean[2]) * 100, oldMean[1] * newMean[2]>>

\* The improvement as a percentage of the old mean.
ImprovementPctOfOld(newMean, oldMean) ==
    <<(oldMean[1] * newMean[2] - newMean[1] * oldMean[2]) * 100, oldMean[1] * newMean[2]>>

\* improvementPct = (oldMean - newMean) / newMean * 100 as <<numerator, denominator>>.
ImprovementPct(newMean, oldMean) ==
    <<(oldMean[1] * newMean[2] - newMean[1] * oldMean[2]) * 100, newMean[1] * oldMean[2]>>

\* newExecutionsMean >= oldExecutionsMean
MeanGreaterOrEqual(newMean, oldMean) == newMean[1] * oldMean[2] >= oldMean[1] * newMean[2]

\* newExecutionsMean > oldExecutionsMean
MeanGreater(newMean, oldMean) == newMean[1] * oldMean[2] > oldMean[1] * newMean[2]

\* not (p >= 1 - args.confidence): a NaN counts as significant.
SignificantUnlessAbove(pv, confidence) == pv.nan \/ pv.val < 1000 - confidence

\* p < 1 - args.confidence; a comparison with NaN is false.
Significant(pv, confidence) == ~pv.nan /\ pv.val < 1000 - confidence

\* CheckMean with max_regression as a gate: a significant regression fails only
\* if it is more than max_regression of the old mean.
CheckMeanGated(a, pv, newExecutions, oldExecutions) ==
    LET newMean == Mean(newExecutions)
        oldMean == Mean(oldExecutions)
        over == (newMean[1] * oldMean[2] - oldMean[1] * newMean[2]) * 1000
                    > a.max_regression * oldMean[1] * newMean[2]
    IN  IF Significant(pv, a.confidence) /\ MeanGreater(newMean, oldMean)
        THEN [passed |-> ~over,
              lines |-> <<[level |-> IF over THEN "error" ELSE "info",
                           msg |-> "execution regressed by",
                           group |-> "", data |-> RegressionPct(newMean, oldMean)]>>]
        ELSE [passed |-> TRUE, lines |-> <<>>]

\* CheckMean after the t-test returned pv: the value returned and the lines logged.
CheckMean(a, pv, newExecutions, oldExecutions) ==
    LET newMean == Mean(newExecutions)
        oldMean == Mean(oldExecutions)
    IN  IF Significant(pv, a.confidence)
        THEN IF MeanGreater(newMean, oldMean)
             THEN [passed |-> FALSE,
                   lines |-> <<[level |-> "error", msg |-> "execution regressed by",
                                group |-> "", data |-> RegressionPct(newMean, oldMean)]>>]
             ELSE [passed |-> TRUE,
                   lines |-> (IF newMean[1] * oldMean[2] = oldMean[1] * newMean[2]
                              THEN <<[level |-> "error",
                                      msg |-> "Means equal with significant p value",
                                      group |-> "", data |-> pv]>>
                              ELSE <<>>)
                             \o <<[level |-> "info", msg |-> "execution improved by",
                                   group |-> "", data |-> ImprovementPct(newMean, oldMean)]>>]
        ELSE [passed |-> TRUE,
              lines |-> <<[level |-> "debug",
                           msg |-> "execution had too much variance to make conclusion",
                           group |-> "", data |-> <<>>]>>]

\* ----------------------------------------------------------------- CheckP99
CheckP99 == TRUE

\* -------------------------------------------------------------------- state
VARIABLES
    args,           \* the parsed options (AddStatsOptions)
    newGroup,       \* DoTest's arguments
    newExecutions,
    oldGroup,
    oldExecutions,
    pc,             \* where the call is: "DoTest", "CheckVariance", "CheckMean",
                    \* "CheckP99", "all", "done", "raised"; "GetBucketChar" and
                    \* "returned" for a lone GetBucketChar call
    limits,         \* the defaultlimits LogPerformanceStats computed
    p,              \* the p-value of the t-test of CheckMean
    checks,         \* the checks evaluated so far, as pairs <<name, passed>>
    verdict,        \* the value DoTest returned (when pc = "done")
    log,            \* the records handed to logging
    bucket,         \* a lone GetBucketChar call: count, maxCount and the glyph index
    input,          \* statstest.main: the rows csv.reader yields from input_file
    executions_dict,\* statstest.main: the values of each label, in the order read
    queries,        \* abtest.main: the queries to test
    fatal_dbbench_errors, \* abtest.main: args.fatal_dbbench_errors
    stats,          \* abtest.DoQuery: aStats and bStats (elapsedMicros of each run)
    results,        \* abtest.main: the values DoQuery returned so far
    trace,          \* abtest: the dbbench runs and the DoTest calls made, in order
    status,         \* the exit status of the process, NotExited while it runs
    program         \* the command line running: "statstest", "abtest", "" for none

\* The state of the command lines statstest.main and abtest.main around DoTest.
commandVars ==
    <<input, executions_dict, queries, fatal_dbbench_errors, stats, results, trace, status,
      program>>

vars == <<args, newGroup, newExecutions, oldGroup, oldExecutions, pc, limits, p,
          checks, verdict, log, bucket, commandVars>>

\* ------------------------------------------------------------------- inputs
\* --max-interval-percent in tenths: the default 0.10, and 1.0.
IntervalPercents == {1, 10}
\* --max-regression in thousandths: the default 0.02.
Regressions == {20}

Args ==
    [confidence : Confidences,
     max_regression : Regressions,
     max_interval_percent : IntervalPercents,
     histogram_buckets : 1..MaxBuckets]

\* The small samples: up to MaxLen measurements of 0..MaxVal.  Every function
\* of a sample here (min, max, sum, sum of squares, bucket counts) is
\* symmetric in the order of the values, so one order of each is drawn.
SmallSamples ==
    {s \in UNION {[1..n -> 0..MaxVal] : n \in 0..MaxLen} :
        \A i \in 1..(Len(s) - 1) : s[i] <= s[i + 1]}

\* The samples of the spec's scenarios, as pairs <<new, old>>.
RegressionScenario == << <<130, 131, 129, 130, 132>>, <<100, 101, 99, 100, 102>> >>
ImprovementScenario == << <<150, 151, 149, 150, 152>>, <<200, 201, 199, 200, 202>> >>
NoDifferenceScenario == << <<99, 103, 97, 100, 101>>, <<100, 102, 98, 101, 99>> >>
InsufficientScenario == << <<100, 101>>, <<100>> >>
Scenarios ==
    {RegressionScenario, ImprovementScenario, NoDifferenceScenario, InsufficientScenario}

SamplePairs == (SmallSamples \X SmallSamples) \cup Scenarios

NoLimits == [new |-> <<0, 0>>, old |-> <<0, 0>>]
NoBucket == [count |-> 0, maxCount |-> 1, glyph |-> -1]

\* The labels of the rows of statstest's input.
Labels == {"A", "B", "C"}
NotExited == -1
NoStats == [A |-> <<>>, B |-> <<>>]
EmptyDict == [g \in Labels |-> <<>>]

\* A call of DoTest made outside the command lines.
NoCommandLine ==
    /\ input = <<>>
    /\ executions_dict = EmptyDict
    /\ queries = <<>>
    /\ fatal_dbbench_errors = TRUE
    /\ stats = NoStats
    /\ results = <<>>
    /\ trace = <<>>
    /\ status = NotExited
    /\ program = ""

\* A call of DoTest(args, newGroup, newExecutions, oldGroup, oldExecutions).
Init ==
    /\ NoCommandLine
    /\ args \in Args
    /\ newGroup = "B"
    /\ oldGroup = "A"
    /\ \E sp \in SamplePairs : newExecutions = sp[1] /\ oldExecutions = sp[2]
    /\ pc = "DoTest"
    /\ limits = NoLimits
    /\ p = NaN
    /\ checks = {}
    /\ verdict = FALSE
    /\ log = <<>>
    /\ bucket = NoBucket

\* ------------------------------------------------------------------- DoTest
\* LogPerformanceStats(args, newGroup, newExecutions, oldGroup, oldExecutions, unit):
\* DoTest's arguments land in the parameters (args, oldGroup, oldExecutions,
\* newGroup, newExecutions).
Report ==
    /\ pc = "DoTest"
    /\ IF LogPerformanceStatsRaises(args, newExecutions, oldExecutions)
       THEN /\ pc' = "raised"
            /\ UNCHANGED <<limits, log>>
       ELSE /\ pc' = "CheckVariance"
            /\ limits' = [new |-> NewLimits(newExecutions, oldExecutions,
                                            args.histogram_buckets),
                          old |-> OldLimits(newExecutions, oldExecutions,
                                            args.histogram_buckets)]
            /\ log' = log \o LogPerformanceStats(args, newGroup, newExecutions,
                                                 oldGroup, oldExecutions)
    /\ UNCHANGED commandVars
    /\ UNCHANGED <<args, newGroup, newExecutions, oldGroup, oldExecutions, p, checks,
                   verdict, bucket>>

\* The checks chained with `and`: a failed variance check ends the evaluation.
VarianceShortCircuit ==
    /\ pc = "CheckVariance"
    /\ LET r == CheckVariance(args, newGroup, newExecutions, oldGroup, oldExecutions)
       IN  /\ checks' = checks \cup {<<"variance", r.passed>>}
           /\ log' = log \o r.lines
           /\ pc' = IF r.passed THEN "CheckMean" ELSE "all"
    /\ UNCHANGED commandVars
    /\ UNCHANGED <<args, newGroup, newExecutions, oldGroup, oldExecutions, limits, p,
                   verdict, bucket>>

Variance ==
    /\ pc = "CheckVariance"
    /\ LET r == CheckVariance(args, newGroup, newExecutions, oldGroup, oldExecutions)
       IN  /\ checks' = checks \cup {<<"variance", r.passed>>}
           /\ log' = log \o r.lines
    /\ pc' = "CheckMean"
    /\ UNCHANGED commandVars
    /\ UNCHANGED <<args, newGroup, newExecutions, oldGroup, oldExecutions, limits, p,
                   verdict, bucket>>

MeanTest ==
    /\ pc = "CheckMean"
    /\ p' = TTestInd(newExecutions, oldExecutions)
    /\ LET r == CheckMean(args, p', newExecutions, oldExecutions)
       IN  /\ checks' = checks \cup {<<"mean", r.passed>>}
           /\ log' = log \o r.lines
    /\ pc' = "CheckP99"
    /\ UNCHANGED commandVars
    /\ UNCHANGED <<args, newGroup, newExecutions, oldGroup, oldExecutions, limits,
                   verdict, bucket>>

P99 ==
    /\ pc = "CheckP99"
    /\ checks' = checks \cup {<<"p99", CheckP99>>}
    /\ pc' = "all"
    /\ UNCHANGED commandVars
    /\ UNCHANGED <<args, newGroup, newExecutions, oldGroup, oldExecutions, limits, p,
                   verdict, log, bucket>>

\* any() in place of all().
DoTestAny(outcomes) == \E c \in outcomes : c[2]

\* return all((CheckVariance(...), CheckMean(...), CheckP99(...)))
DoTest(outcomes) == \A c \in outcomes : c[2]

Return ==
    /\ pc = "all"
    /\ verdict' = DoTest(checks)
    /\ pc' = "done"
    /\ UNCHANGED commandVars
    /\ UNCHANGED <<args, newGroup, newExecutions, oldGroup, oldExecutions, limits, p,
                   checks, log, bucket>>

Next == Report \/ Variance \/ MeanTest \/ P99 \/ Return

Spec == Init /\ [][Next]_vars

\* ------------------------------------------------- the report of a call
\* The calls of DoTest up to the return of LogPerformanceStats.
SpecReport == Init /\ [][Report]_vars

\* ------------------------------------------- DoTest under --max-regression
\* Calls of DoTest that differ in args.max_regression: the default 0.02 and 0.5
\* (thousandths), with two buckets.
RegressionLimits == {20, 500}
ShortSamples == {s \in SmallSamples : Len(s) <= 2}

InitMaxRegression ==
    /\ NoCommandLine
    /\ args \in [confidence : Confidences,
                 max_regression : RegressionLimits,
                 max_interval_percent : IntervalPercents,
                 histogram_buckets : {2}]
    /\ newGroup = "B"
    /\ oldGroup = "A"
    /\ \E sp \in (ShortSamples \X ShortSamples) \cup Scenarios :
            newExecutions = sp[1] /\ oldExecutions = sp[2]
    /\ pc = "DoTest"
    /\ limits = NoLimits
    /\ p = NaN
    /\ checks = {}
    /\ verdict = FALSE
    /\ log = <<>>
    /\ bucket = NoBucket

SpecMaxRegression == InitMaxRegression /\ [][Next]_vars

\* ------------------------------------------------ CheckMean as a function
\* CheckMean applied to every p-value the t-test may return, whatever the
\* samples: a call of CheckMean(args, newGroup, newExecutions, oldGroup,
\* oldExecutions) in which stats.ttest_ind returns p.
MeanSamples == {s \in SmallSamples : Len(s) >= 1 /\ Len(s) <= 2}

InitCheckMean ==
    /\ NoCommandLine
    /\ args \in {a \in Args : a.histogram_buckets = 2 /\ a.max_interval_percent = 1}
    /\ newGroup = "B"
    /\ oldGroup = "A"
    /\ newExecutions \in MeanSamples
    /\ oldExecutions \in MeanSamples
    /\ pc = "CheckMean"
    /\ limits = NoLimits
    /\ p \in PValues
    /\ checks = {}
    /\ verdict = FALSE
    /\ log = <<>>
    /\ bucket = NoBucket

MeanGiven ==
    /\ pc = "CheckMean"
    /\ LET r == CheckMean(args, p, newExecutions, oldExecutions)
       IN  /\ checks' = checks \cup {<<"mean", r.passed>>}
           /\ log' = log \o r.lines
    /\ pc' = "CheckP99"
    /\ UNCHANGED commandVars
    /\ UNCHANGED <<args, newGroup, newExecutions, oldGroup, oldExecutions, limits, p,
                   verdict, bucket>>

SpecCheckMean == InitCheckMean /\ [][MeanGiven]_vars

\* -------------------------------------------- GetBucketChar as a function
\* A call of GetBucketChar(count, maxCount) with 0 <= count <= maxCount, as
\* GetHistogramString calls it with a bucket and max(buckets).
InitBucketChar ==
    /\ NoCommandLine
    /\ args \in {a \in Args : a.confidence = 999 /\ a.histogram_buckets = 2
                              /\ a.max_interval_percent = 1}
    /\ newGroup = "B"
    /\ oldGroup = "A"
    /\ newExecutions = <<>>
    /\ oldExecutions = <<>>
    /\ pc = "GetBucketChar"
    /\ limits = NoLimits
    /\ p = NaN
    /\ checks = {}
    /\ verdict = FALSE
    /\ log = <<>>
    /\ bucket \in {b \in [count : 0..MaxCount, maxCount : 1..MaxCount, glyph : {-1}] :
                      b.count <= b.maxCount}

BucketChar ==
    /\ pc = "GetBucketChar"
    /\ bucket' = [bucket EXCEPT !.glyph = GetBucketChar(bucket.count, bucket.maxCount)]
    /\ pc' = "returned"
    /\ UNCHANGED commandVars
    /\ UNCHANGED <<args, newGroup, newExecutions, oldGroup, oldExecutions, limits, p,
                   checks, verdict, log>>

SpecBucketChar == InitBucketChar /\ [][BucketChar]_vars

\* ----------------------------------------------------------- statstest.main
\* The rows of the input file: at most MaxRows rows, each one empty or
\* <<label, score>>; the score is the number float(row[1]) returns.
MaxRows == 5
RowValues == {1, 2}
Rows == {<<>>} \cup {<<g, v>> : g \in Labels, v \in RowValues}
Inputs == UNION {[1..n -> Rows] : n \in 0..MaxRows}

\* The options of the command lines: the defaults but for two buckets and
\* max_interval_percent 0.1.
CommandArgs ==
    {a \in Args : a.confidence = 999 /\ a.max_interval_percent = 1
                    /\ a.histogram_buckets = 2}

\* oldGroup = row[0], whatever oldGroup was.
LastSeen(group, label) == label

\* oldGroup = row[0] if oldGroup is None else oldGroup
FirstSeen(group, label) == IF group = "None" THEN label ELSE group

\* The loop over csv.reader(args.input_file): empty rows are skipped.
RECURSIVE ReadRows(_, _)
ReadRows(rows, acc) ==
    IF rows = <<>> THEN acc
    ELSE LET row == Head(rows)
         IN  ReadRows(Tail(rows),
                      IF Len(row) = 0 THEN acc
                      ELSE [oldGroup |-> FirstSeen(acc.oldGroup, row[1]),
                            dict |-> [acc.dict EXCEPT ![row[1]] = Append(@, row[2])]])

\* executions_dict.keys(): a label is a key once a value was appended to it.
Keys(dict) == {g \in Labels : dict[g] # <<>>}

\* Status 0 whatever DoTest returned.
ExitStatusZero(passed) == 0

\* if not DoTest(...): sys.exit(1); falling off main is status 0.
ExitStatus(passed) == IF passed THEN 0 ELSE 1

InitMain ==
    /\ args \in CommandArgs
    /\ newGroup = "None"
    /\ oldGroup = "None"
    /\ newExecutions = <<>>
    /\ oldExecutions = <<>>
    /\ pc = "main"
    /\ limits = NoLimits
    /\ p = NaN
    /\ checks = {}
    /\ verdict = FALSE
    /\ log = <<>>
    /\ bucket = NoBucket
    /\ input \in Inputs
    /\ executions_dict = EmptyDict
    /\ queries = <<>>
    /\ fatal_dbbench_errors = TRUE
    /\ stats = NoStats
    /\ results = <<>>
    /\ trace = <<>>
    /\ status = NotExited
    /\ program = "statstest"

callVars == <<limits, p, checks, verdict, bucket>>
abtestVars == <<queries, fatal_dbbench_errors, stats, results, trace>>

ReadInput ==
    /\ pc = "main"
    /\ LET r == ReadRows(input, [oldGroup |-> oldGroup, dict |-> executions_dict])
       IN  /\ oldGroup' = r.oldGroup
           /\ executions_dict' = r.dict
    /\ pc' = "groups"
    /\ UNCHANGED <<args, newGroup, newExecutions, oldExecutions, log, input, status,
                   program>>
    /\ UNCHANGED callVars
    /\ UNCHANGED abtestVars

\* The check of the number of groups, the loop that names the groups and the
\* comparison of the lengths.
Groups ==
    /\ pc = "groups"
    /\ IF Cardinality(Keys(executions_dict)) # 2
       THEN /\ log' = Append(log, [level |-> "fatal",
                                   msg |-> "You must provide exactly two groups",
                                   group |-> "", data |-> <<>>])
            /\ status' = 1
            /\ pc' = "exited"
            /\ UNCHANGED <<newGroup, newExecutions, oldExecutions>>
       ELSE LET other == CHOOSE g \in Keys(executions_dict) : g # oldGroup
            IN  /\ oldExecutions' = executions_dict[oldGroup]
                /\ newGroup' = other
                /\ newExecutions' = executions_dict[other]
                /\ log' = IF Len(executions_dict[oldGroup]) # Len(executions_dict[other])
                          THEN Append(log,
                                [level |-> "error",
                                 msg |-> "Both groups do not have the same number of values",
                                 group |-> "", data |-> <<>>])
                          ELSE log
                /\ pc' = "DoTest"
                /\ UNCHANGED status
    /\ UNCHANGED <<args, oldGroup, input, executions_dict, program>>
    /\ UNCHANGED callVars
    /\ UNCHANGED abtestVars

ExitMain ==
    /\ pc = "done"
    /\ program = "statstest"
    /\ status' = ExitStatus(verdict)
    /\ pc' = "exited"
    /\ UNCHANGED <<args, newGroup, newExecutions, oldGroup, oldExecutions, log, input,
                   executions_dict, program>>
    /\ UNCHANGED callVars
    /\ UNCHANGED abtestVars

MainNext ==
    ReadInput \/ Groups \/ Report \/ Variance \/ MeanTest \/ P99 \/ Return \/ ExitMain

\* -------------------------------------------------------------- abtest.main
\* The queries are numbered 1..n, n <= MaxQueries.
MaxQueries == 2
\* The elapsedMicros of the statistics a successful dbbench run returns.
RunStats == {<<1000, 1000>>, <<2000, 2000>>, <<1000>>}
\* [float(s.elapsedMicros) / 1000.0 for s in stats]: the division is exact for
\* the values of RunStats.
Millis(runStats) == [i \in DOMAIN runStats |-> runStats[i] \div 1000]

\* An entry of the trace: a dbbench run (step "A" or "B", ok iff it returned)
\* with the statistics it returned, or a call of DoTest (step "DoTest").
Event(query, step, ok, runStats) ==
    [query |-> query, step |-> step, ok |-> ok, stats |-> runStats]

\* 0 if any(results) else 1.
AbtestStatusAny(rs) == IF \E i \in DOMAIN rs : rs[i] THEN 0 ELSE 1

\* sys.exit(0 if all(results) else 1)
AbtestStatus(rs) == IF \A i \in DOMAIN rs : rs[i] THEN 0 ELSE 1

InitAbtest ==
    /\ args \in CommandArgs
    /\ newGroup = "None"
    /\ oldGroup = "None"
    /\ newExecutions = <<>>
    /\ oldExecutions = <<>>
    /\ pc = "abtest"
    /\ limits = NoLimits
    /\ p = NaN
    /\ checks = {}
    /\ verdict = FALSE
    /\ log = <<>>
    /\ bucket = NoBucket
    /\ input = <<>>
    /\ executions_dict = EmptyDict
    /\ \E n \in 0..MaxQueries : queries = [i \in 1..n |-> i]
    /\ fatal_dbbench_errors \in BOOLEAN
    /\ stats = NoStats
    /\ results = <<>>
    /\ trace = <<>>
    /\ status = NotExited
    /\ program = "abtest"

\* The query DoQuery is called with: results holds the earlier queries' values.
Query == Len(results) + 1

\* aStats = RunQuery(args, A_dbspec, query, ...): returns the statistics or
\* raises subprocess.CalledProcessError.
RunQueryA ==
    /\ pc = "abtest"
    /\ program = "abtest"
    /\ Len(results) < Len(queries)
    /\ \/ \E s \in RunStats :
            /\ stats' = [A |-> s, B |-> <<>>]
            /\ trace' = Append(trace, Event(Query, "A", TRUE, s))
            /\ pc' = "RunQueryB"
       \/ /\ stats' = NoStats
          /\ trace' = Append(trace, Event(Query, "A", FALSE, <<>>))
          /\ pc' = "except"
    /\ UNCHANGED <<args, newGroup, newExecutions, oldGroup, oldExecutions, log, input,
                   executions_dict, queries, fatal_dbbench_errors, results, status,
                   program>>
    /\ UNCHANGED callVars

\* bStats = RunQuery(args, B_dbspec, query, ...)
RunQueryB ==
    /\ pc = "RunQueryB"
    /\ \/ \E s \in RunStats :
            /\ stats' = [stats EXCEPT !.B = s]
            /\ trace' = Append(trace, Event(Query, "B", TRUE, s))
            /\ pc' = "compare"
       \/ /\ stats' = stats
          /\ trace' = Append(trace, Event(Query, "B", FALSE, <<>>))
          /\ pc' = "except"
    /\ UNCHANGED <<args, newGroup, newExecutions, oldGroup, oldExecutions, log, input,
                   executions_dict, queries, fatal_dbbench_errors, results, status,
                   program>>
    /\ UNCHANGED callVars

\* The except clause returning False whatever args.fatal_dbbench_errors is.
ExceptReturnsFalse ==
    /\ pc = "except"
    /\ log' = Append(log, [level |-> "error", msg |-> "Failed to execute dbbench with query",
                           group |-> "", data |-> Query])
    /\ results' = Append(results, FALSE)
    /\ pc' = "abtest"
    /\ UNCHANGED status
    /\ UNCHANGED <<args, newGroup, newExecutions, oldGroup, oldExecutions, input,
                   executions_dict, queries, fatal_dbbench_errors, stats, trace, program>>
    /\ UNCHANGED callVars

\* except subprocess.CalledProcessError: the error is logged, then
\* sys.exit("Exiting immediately ...") (a string: status 1) or return False.
Except ==
    /\ pc = "except"
    /\ log' = Append(log, [level |-> "error", msg |-> "Failed to execute dbbench with query",
                           group |-> "", data |-> Query])
    /\ IF fatal_dbbench_errors
       THEN /\ status' = 1
            /\ pc' = "exited"
            /\ UNCHANGED results
       ELSE /\ results' = Append(results, FALSE)
            /\ pc' = "abtest"
            /\ UNCHANGED status
    /\ UNCHANGED <<args, newGroup, newExecutions, oldGroup, oldExecutions, input,
                   executions_dict, queries, fatal_dbbench_errors, stats, trace, program>>
    /\ UNCHANGED callVars

\* statstest.DoTest(args, args.B_name, bExecutions, args.A_name, aExecutions):
\* the call binds the parameters; the names default to "A" and "B".
Compare ==
    /\ pc = "compare"
    /\ newGroup' = "B"
    /\ newExecutions' = Millis(stats.B)
    /\ oldGroup' = "A"
    /\ oldExecutions' = Millis(stats.A)
    /\ trace' = Append(trace, Event(Query, "DoTest", TRUE, <<>>))
    /\ limits' = NoLimits
    /\ p' = NaN
    /\ checks' = {}
    /\ pc' = "DoTest"
    /\ UNCHANGED <<args, verdict, log, bucket, input, executions_dict, queries,
                   fatal_dbbench_errors, stats, results, status, program>>

\* DoQuery returns DoTest's value, which the list comprehension collects.
QueryResult ==
    /\ pc = "done"
    /\ program = "abtest"
    /\ results' = Append(results, verdict)
    /\ pc' = "abtest"
    /\ UNCHANGED <<args, newGroup, newExecutions, oldGroup, oldExecutions, log, input,
                   executions_dict, queries, fatal_dbbench_errors, stats, trace, status,
                   program>>
    /\ UNCHANGED callVars

ExitAbtest ==
    /\ pc = "abtest"
    /\ program = "abtest"
    /\ Len(results) = Len(queries)
    /\ status' = AbtestStatus(results)
    /\ pc' = "exited"
    /\ UNCHANGED <<args, newGroup, newExecutions, oldGroup, oldExecutions, log, input,
                   executions_dict, program>>
    /\ UNCHANGED callVars
    /\ UNCHANGED abtestVars

AbtestNext ==
    \/ RunQueryA \/ RunQueryB \/ Except \/ Compare
    \/ Report \/ Variance \/ MeanTest \/ P99 \/ Return
    \/ QueryResult \/ ExitAbtest

\* The two command lines.
SpecCommandLine ==
    (InitMain \/ InitAbtest) /\ [][MainNext \/ AbtestNext]_vars

\* =================================================================== claims
AfterReport == pc \in {"CheckVariance", "CheckMean", "CheckP99", "all", "done"}
AfterVariance == pc \in {"CheckMean", "CheckP99", "all", "done"}
AfterMean == pc \in {"CheckP99", "all", "done"}
Passed(name) == <<name, TRUE>> \in checks
Failed(name) == <<name, FALSE>> \in checks
\* Both samples non-empty and at least two buckets: the inputs of the data model.
ValidInput == newExecutions # <<>> /\ oldExecutions # <<>> /\ args.histogram_buckets >= 2
\* The values of both samples.
AllValues ==
    {newExecutions[i] : i \in DOMAIN newExecutions}
        \cup {oldExecutions[i] : i \in DOMAIN oldExecutions}
\* The records logged with the given message.
Logged(msg) == {i \in DOMAIN log : log[i].msg = msg}
\* lo <= num/den <= hi for a logged percentage <<num, den>>, den > 0.
PctWithin(pct, lo, hi) == pct[2] > 0 /\ lo * pct[2] <= pct[1] /\ pct[1] <= hi * pct[2]

\* C1: the verdict DoTest returns is true exactly when the variance check, the
\* mean check and the tail check all passed; the tail check always passes, so
\* the verdict is CheckVariance and CheckMean.
C1_VerdictIsConjunction ==
    pc = "done" =>
        /\ verdict = (Passed("variance") /\ Passed("mean") /\ Passed("p99"))
        /\ Passed("p99") /\ ~Failed("p99")
        /\ verdict =
            (/\ CheckVariance(args, newGroup, newExecutions, oldGroup, oldExecutions).passed
             /\ CheckMean(args, TTestInd(newExecutions, oldExecutions),
                          newExecutions, oldExecutions).passed)

\* C1 witness: a call returns false with the variance check passed and the mean
\* check failed.
C1_Witness == pc = "done" /\ ~verdict /\ Passed("variance") /\ Failed("mean")

\* C2: CheckMean fails exactly when p < 1 - confidence and mean(new) > mean(old);
\* it passes otherwise, and a significant p with equal means passes and logs the
\* anomaly.
C2_CheckMeanDecision ==
    pc = "CheckP99" =>
        LET sig == ~p.nan /\ p.val < 1000 - args.confidence
            lhs == SeqSum(newExecutions) * Len(oldExecutions)
            rhs == SeqSum(oldExecutions) * Len(newExecutions)
        IN  /\ Failed("mean") <=> (sig /\ lhs > rhs)
            /\ Passed("mean") <=> ~(sig /\ lhs > rhs)
            /\ (~p.nan /\ p.val >= 1000 - args.confidence) => Passed("mean")
            /\ (sig /\ lhs <= rhs) => Passed("mean")
            /\ (Logged("Means equal with significant p value") # {}) <=> (sig /\ lhs = rhs)

\* C2 witness: a significant p with equal means passed.
C2_Witness ==
    /\ pc = "CheckP99"
    /\ ~p.nan /\ p.val < 1000 - args.confidence
    /\ SeqSum(newExecutions) * Len(oldExecutions) = SeqSum(oldExecutions) * Len(newExecutions)
    /\ Passed("mean")

\* The half-width of the group as a fraction of the group's own mean exceeds
\* max_interval_percent: (width/mean)^2 = dev*tsq / (sum^2*1000) > (mip/10)^2.
FractionExceeds(values) ==
    LET e == GetConfidenceIntervalWidth(values, args.confidence)
        sum == SeqSum(values)
        mip == args.max_interval_percent
    IN  /\ ~e.nan
        /\ e.sign > 0
        /\ sum > 0
        /\ FracCmp(100 * e.dev, sum * sum * mip * mip, 1000, e.tsq) > 0

\* C3: with at least 2 observations in both groups, CheckVariance fails exactly
\* when the half-width of one of the groups, as a fraction of that group's own
\* mean, exceeds max_interval_percent.
C3_VarianceDecision ==
    (AfterVariance /\ Len(newExecutions) >= 2 /\ Len(oldExecutions) >= 2) =>
        /\ Failed("variance") <=>
               (FractionExceeds(newExecutions) \/ FractionExceeds(oldExecutions))
        /\ Passed("variance") <=>
               ~(FractionExceeds(newExecutions) \/ FractionExceeds(oldExecutions))

\* C3 witness: the variance check failed on the old group alone, the means differ.
C3_Witness ==
    /\ AfterVariance
    /\ Len(newExecutions) >= 2 /\ Len(oldExecutions) >= 2
    /\ Failed("variance")
    /\ FractionExceeds(oldExecutions) /\ ~FractionExceeds(newExecutions)
    /\ SeqSum(newExecutions) * Len(oldExecutions) # SeqSum(oldExecutions) * Len(newExecutions)

\* C4: when a group has fewer than 2 observations (both non-empty), DoTest does
\* not raise, the variance check fails and the verdict is false.
C4_InsufficientSamples ==
    (ValidInput /\ (Len(newExecutions) < 2 \/ Len(oldExecutions) < 2)) =>
        /\ pc # "raised"
        /\ AfterVariance => (Failed("variance") /\ ~Passed("variance"))
        /\ pc = "done" => ~verdict

\* C4 witness: A = [100], B = [100, 101] returned false with the mean check passed.
C4_Witness ==
    /\ pc = "done"
    /\ <<newExecutions, oldExecutions>> = InsufficientScenario
    /\ Passed("mean")
    /\ ~verdict

\* C5: A = [100,101,99,100,102], B = [130,131,129,130,132] at confidence 0.999:
\* p < 0.001, the mean check fails, the verdict is false, and the regression
\* logged is (mean(B) - mean(A)) / mean(A) * 100 = (652 - 502) / 502 * 100, about 30.
C5_RegressionScenario ==
    (<<newExecutions, oldExecutions>> = RegressionScenario /\ args.confidence = 999) =>
        /\ AfterMean =>
            /\ ~p.nan /\ p.val < 1
            /\ Failed("mean") /\ ~Passed("mean")
            /\ \E i \in Logged("execution regressed by") :
                /\ log[i].level = "error"
                /\ log[i].data[1] * 502 = log[i].data[2] * 15000
                /\ PctWithin(log[i].data, 29, 31)
        /\ pc = "done" => ~verdict

\* C5 witness: the regression scenario returned at confidence 0.999.
C5_Witness ==
    /\ pc = "done"
    /\ <<newExecutions, oldExecutions>> = RegressionScenario
    /\ args.confidence = 999
    /\ Failed("mean")

\* C6 as stated: A = [200,201,199,200,202], B = [150,151,149,150,152]: the mean
\* check passes, the improvement logged is about 25%, the verdict is true.
C6_ImprovementAbout25 ==
    (<<newExecutions, oldExecutions>> = ImprovementScenario) =>
        /\ AfterMean =>
            /\ Passed("mean")
            /\ \E i \in Logged("execution improved by") : PctWithin(log[i].data, 24, 26)
        /\ pc = "done" => verdict

\* C6 amended: in the improvement scenario the mean check passes, the verdict is
\* true, and the improvement logged is relative to the new mean:
\* (mean(A) - mean(B)) / mean(B) * 100 = (1002 - 752) / 752 * 100, about 33.2.
C6_ImprovementOfNewMean ==
    (<<newExecutions, oldExecutions>> = ImprovementScenario) =>
        /\ AfterMean =>
            /\ Passed("mean") /\ ~Failed("mean")
            /\ \E i \in Logged("execution improved by") :
                /\ log[i].level = "info"
                /\ log[i].data[1] * 752 = log[i].data[2] * 25000
                /\ PctWithin(log[i].data, 33, 34)
        /\ pc = "done" => verdict

\* C6 witness: the improvement scenario returned true.
C6_Witness ==
    /\ pc = "done"
    /\ <<newExecutions, oldExecutions>> = ImprovementScenario
    /\ Logged("execution improved by") # {}
    /\ verdict

\* C7: for non-empty samples and at least 2 buckets the report never raises and
\* logs one line per group before any check runs; each line has one glyph per
\* bucket and shows its fullest bucket, also when all values are equal.
C7_ReportAlwaysProduced ==
    ValidInput =>
        /\ pc # "raised"
        /\ pc # "DoTest" =>
            /\ Len(log) >= 2
            /\ {log[1].group, log[2].group} = {newGroup, oldGroup}
            /\ \A i \in 1..2 :
                /\ log[i].msg = "execution time"
                /\ Len(log[i].data.hist.glyphs) = args.histogram_buckets
                /\ \E b \in 1..args.histogram_buckets :
                        log[i].data.hist.glyphs[b] = NumBlocks - 1
        /\ pc = "CheckVariance" => (Len(log) = 2 /\ checks = {})

\* C7 witness: a report of a single value and a sample equal to it throughout.
C7_Witness ==
    /\ AfterReport
    /\ Len(newExecutions) = 1
    /\ Cardinality(AllValues) = 1
    /\ Len(log) >= 2

\* C8 as stated: the shared range is [m - pad, M + pad] with
\* pad = 0.5 * (M - m) / (numBuckets - 1), and every value of both samples lies
\* strictly inside it.  Limits are numerators over 2 * (numBuckets - 1).  Stated
\* for samples that are not all one value (M > m, pad > 0).
C8_PaddedRange ==
    (AfterReport /\ Cardinality(AllValues) > 1) =>
        LET m == SeqMin(<<SeqMin(newExecutions), SeqMin(oldExecutions)>>)
            M == SeqMax(<<SeqMax(newExecutions), SeqMax(oldExecutions)>>)
            den == 2 * (args.histogram_buckets - 1)
        IN  /\ limits.new = <<m * den - (M - m), M * den + (M - m)>>
            /\ limits.old = limits.new
            /\ \A x \in AllValues : limits.new[1] < x * den /\ x * den < limits.new[2]

\* C9: both histograms of a report have the same lower bound, the same upper
\* bound and the same number of buckets, and the range holds the values of both
\* samples.
C9_SharedRange ==
    AfterReport =>
        LET h1 == log[1].data.hist
            h2 == log[2].data.hist
            den == 2 * (args.histogram_buckets - 1)
        IN  /\ h1.low = h2.low
            /\ h1.high = h2.high
            /\ Len(h1.glyphs) = args.histogram_buckets
            /\ Len(h2.glyphs) = args.histogram_buckets
            /\ limits.new = limits.old
            /\ \A x \in AllValues :
                /\ h1.low[1] <= x * h1.low[2]
                /\ limits.new[1] <= x * den /\ x * den <= limits.new[2]

\* C9 witness: a report of two samples whose minima differ and whose maxima differ.
C9_Witness ==
    /\ AfterReport
    /\ SeqMin(newExecutions) # SeqMin(oldExecutions)
    /\ SeqMax(newExecutions) # SeqMax(oldExecutions)

\* C10: for 0 <= c <= M, M >= 1, GetBucketChar returns one of the 9 levels; c > 0
\* never gives level 0, c = M gives level 8, c = 0 gives level 0.
C10_BucketChar ==
    pc = "returned" =>
        /\ bucket.glyph \in 0..8
        /\ bucket.count > 0 => bucket.glyph >= 1
        /\ bucket.count = bucket.maxCount => bucket.glyph = 8
        /\ bucket.count = 0 => bucket.glyph = 0

\* C10 witness: a non-empty bucket with less than an eighth of the fullest
\* bucket's count is shown at level 1.
C10_Witness ==
    /\ pc = "returned"
    /\ bucket.count > 0
    /\ bucket.count * 8 < bucket.maxCount
    /\ bucket.glyph = 1

\* The histograms of the two lines of the report with the limits they were given.
ReportHists == {<<log[1].data.hist, limits.new>>, <<log[2].data.hist, limits.old>>}

\* C11 as stated: for every range and bucket count the right bound printed is
\* the upper limit passed in plus one bin width, the bin width being a
\* numBuckets-th of the range passed in.
C11_PastUpperLimitEveryRange ==
    AfterReport =>
        \A hl \in ReportHists :
            LET h == hl[1]
                lim == hl[2]
                nb == args.histogram_buckets
            IN  /\ h.high[2] = LimitDen(nb) * nb
                /\ h.high[1] = lim[2] * nb + (lim[2] - lim[1])

\* C11, amended: the right bound printed is low + binWidth * (numBuckets + 1);
\* for a range of non-zero width that is the upper limit passed in plus one bin
\* width; for a range of zero width (all values equal) numpy bins the range
\* widened by 0.5 on both sides, the bin width is 1/numBuckets and the bound
\* printed is low + (numBuckets + 1)/numBuckets.
C11_RightBound ==
    AfterReport =>
        \A hl \in ReportHists :
            LET h == hl[1]
                lim == hl[2]
                nb == args.histogram_buckets
            IN  /\ h.low = <<lim[1], LimitDen(nb)>>
                /\ h.high[2] = LimitDen(nb) * nb
                /\ lim[1] < lim[2] => h.high[1] = lim[2] * nb + (lim[2] - lim[1])
                /\ lim[1] = lim[2] => h.high[1] = lim[1] * nb + LimitDen(nb) * (nb + 1)

\* C11 witness: a report over a range of non-zero width with three buckets.
C11_Witness ==
    /\ AfterReport
    /\ args.histogram_buckets = 3
    /\ limits.new[1] < limits.new[2]

\* The half-widths GetMeanStr printed in the two lines of the report.
ReportErrors == {log[1].data.error, log[2].data.error}

\* C12: for a sample of n >= 2 values GetConfidenceIntervalWidth is the standard
\* error of the mean with the n-1 divisor, sqrt(SS/(n-1))/sqrt(n), times the
\* two-sided t critical value for n-1 degrees of freedom at the confidence
\* level: width^2 = dev/(n^2 * (n-1)) * TCritSq(1 - confidence, n-1)/1000, width >= 0.
C12_SemTimesTwoSidedT ==
    AfterReport =>
        \A e \in ReportErrors :
            (e.n >= 2 /\ e.dev > 0) =>
                /\ ~e.nan
                /\ e.sign = 1
                /\ e.tsq * (e.n - 1) = TCritSq(1000 - args.confidence, e.n - 1)

\* C13: for a sample of at least 2 values and every confidence in (0,1), below
\* 0.5 included, the half-width GetConfidenceIntervalWidth returns is >= 0.
C13_HalfWidthNonNegative ==
    AfterReport =>
        \A e \in ReportErrors : e.n >= 2 => (~e.nan /\ e.sign >= 0)

CheckNames == {c[1] : c \in checks}
VarianceMsgs ==
    {"Insufficient samples to check variance.", "confidence interval width is more than"}
MeanMsgs == {"execution regressed by", "execution improved by",
             "Means equal with significant p value",
             "execution had too much variance to make conclusion"}

\* C18: in a DoTest call the stages run in the order report, variance check,
\* mean check, tail check; every check is evaluated whatever the earlier ones
\* returned, the mean check logs its diagnostic also after the variance check
\* failed, and only the report, never a check, raises.
C18_StageOrder ==
    /\ pc = "DoTest" => (checks = {} /\ log = <<>>)
    /\ pc = "raised" => (checks = {} /\ log = <<>>)
    /\ pc = "CheckVariance" => (CheckNames = {} /\ Len(log) = 2)
    /\ pc = "CheckMean" => CheckNames = {"variance"}
    /\ pc = "CheckP99" => CheckNames = {"variance", "mean"}
    /\ pc \in {"all", "done"} => CheckNames = {"variance", "mean", "p99"}
    /\ AfterReport =>
        /\ log[1].msg = "execution time" /\ log[2].msg = "execution time"
        /\ \A i \in DOMAIN log : i > 2 => log[i].msg \in VarianceMsgs \cup MeanMsgs
        /\ \A i, j \in DOMAIN log :
            (log[i].msg \in VarianceMsgs /\ log[j].msg \in MeanMsgs) => i < j
    /\ AfterMean => \E i \in DOMAIN log : log[i].msg \in MeanMsgs
    /\ pc = "done" => (~verdict <=> (Failed("variance") \/ Failed("mean")))

\* C18 witness: a call returned with the variance check failed and, after it,
\* the mean check failed and logged the regression.
C18_Witness ==
    /\ pc = "done"
    /\ Failed("variance")
    /\ Failed("mean")
    /\ Logged("execution regressed by") # {}

\* The input as the claims describe it: the labels of the non-empty rows, the
\* label of the first of them, and the scores of a label's rows in input order.
NonEmptyRows == {i \in DOMAIN input : input[i] # <<>>}
InputLabels == {input[i][1] : i \in NonEmptyRows}
FirstLabel == input[CHOOSE i \in NonEmptyRows : \A j \in NonEmptyRows : i <= j][1]
ScoresOf(g) ==
    LET rowsOf == SelectSeq(input, LAMBDA row : row # <<>> /\ row[1] = g)
    IN  [i \in DOMAIN rowsOf |-> rowsOf[i][2]]
MismatchLogged == Logged("Both groups do not have the same number of values") # {}

\* C16: statstest exits with a non-zero status exactly when the input does not
\* hold exactly two labels, and then no comparison was run, or when the verdict
\* is false; groups of different sizes are logged and the run goes on to the
\* comparison, whose verdict alone decides the status.
C16_ExitStatus ==
    program = "statstest" =>
        /\ pc # "exited" => status = NotExited
        /\ pc \notin {"main", "groups"} =>
            (MismatchLogged <=>
                (Cardinality(InputLabels) = 2
                    /\ \E g, h \in InputLabels : Len(ScoresOf(g)) # Len(ScoresOf(h))))
        /\ pc = "exited" =>
            /\ status \in {0, 1}
            /\ status # 0 <=> (Cardinality(InputLabels) # 2 \/ ~verdict)
            /\ Cardinality(InputLabels) # 2 =>
                (checks = {} /\ Logged("execution time") = {}
                    /\ Logged("You must provide exactly two groups") # {})
            /\ Cardinality(InputLabels) = 2 =>
                (CheckNames = {"variance", "mean", "p99"}
                    /\ Cardinality(Logged("execution time")) = 2
                    /\ status = (IF verdict THEN 0 ELSE 1))

\* C16 witness: statstest exited with status 0 on two groups of different sizes.
C16_Witness ==
    /\ program = "statstest"
    /\ pc = "exited"
    /\ status = 0
    /\ MismatchLogged
    /\ Len(newExecutions) # Len(oldExecutions)

\* The run of variant v for the query being tested, in the trace.
RunOf(v) ==
    trace[CHOOSE i \in DOMAIN trace :
            trace[i].step = v /\ trace[i].ok /\ trace[i].query = Query]
InDoTest == pc \in {"DoTest", "CheckVariance", "CheckMean", "CheckP99", "all", "done"}

\* C17: in statstest the label of the first non-empty row is the old group and
\* the other label the new group, and the sample of each label is the scores of
\* its rows in input order; in abtest A is the old group and B the new group.
C17_Groups ==
    /\ (program = "statstest" /\ pc # "main") =>
        /\ \A g \in Labels : executions_dict[g] = ScoresOf(g)
        /\ NonEmptyRows # {} => oldGroup = FirstLabel
    /\ (program = "statstest" /\ pc \notin {"main", "groups"}
            /\ Cardinality(InputLabels) = 2) =>
        /\ oldGroup = FirstLabel
        /\ InputLabels = {oldGroup, newGroup}
        /\ newGroup # oldGroup
        /\ oldExecutions = ScoresOf(oldGroup)
        /\ newExecutions = ScoresOf(newGroup)
    /\ (program = "abtest" /\ InDoTest) =>
        /\ oldGroup = "A"
        /\ oldExecutions = Millis(RunOf("A").stats)
        /\ newGroup = "B"
        /\ newExecutions = Millis(RunOf("B").stats)

\* C17 witness: the input starts with an empty row, its first label is "B", the
\* rows of the two labels interleave, and DoTest is called with "B" as the old
\* group.
C17_Witness ==
    /\ program = "statstest"
    /\ pc = "DoTest"
    /\ Len(input) >= 5
    /\ input[1] = <<>>
    /\ input[2] # <<>> /\ input[2][1] = "B"
    /\ input[3] # <<>> /\ input[3][1] = "A"
    /\ input[4] # <<>> /\ input[4][1] = "B"
    /\ oldGroup = "B"
    /\ newGroup = "A"
    /\ oldExecutions # newExecutions

\* The entries of the trace of the given step of a query, and the failed runs.
EventsOf(q, step) == {i \in DOMAIN trace : trace[i].query = q /\ trace[i].step = step}
FailedRuns == {i \in DOMAIN trace : ~trace[i].ok}
\* The verdict of DoTest for the statistics the two runs of query q returned.
VerdictOf(q) ==
    LET a == Millis(trace[CHOOSE i \in EventsOf(q, "A") : TRUE].stats)
        b == Millis(trace[CHOOSE i \in EventsOf(q, "B") : TRUE].stats)
    IN  /\ CheckVariance(args, "B", b, "A", a).passed
        /\ CheckMean(args, TTestInd(b, a), b, a).passed
        /\ CheckP99

\* C19: when no dbbench run fails, abtest benchmarks and compares every query,
\* in order, also after a query whose verdict was false, and its exit status is
\* 0 exactly when the verdict of every query is true.
C19_AllQueriesCompared ==
    (program = "abtest" /\ pc = "exited" /\ FailedRuns = {}) =>
        /\ Len(results) = Len(queries)
        /\ Len(trace) = 3 * Len(queries)
        /\ \A q \in DOMAIN queries :
            /\ trace[3 * q - 2].step = "A" /\ trace[3 * q - 2].query = q
            /\ trace[3 * q - 1].step = "B" /\ trace[3 * q - 1].query = q
            /\ trace[3 * q].step = "DoTest" /\ trace[3 * q].query = q
            /\ results[q] = VerdictOf(q)
        /\ status \in {0, 1}
        /\ status = 0 <=> \A q \in DOMAIN queries : VerdictOf(q)

\* C19 witness: the first of two queries regressed, the second was compared and
\* passed, and abtest exited with status 1.
C19_Witness ==
    /\ program = "abtest"
    /\ pc = "exited"
    /\ FailedRuns = {}
    /\ Len(queries) = 2
    /\ results = <<FALSE, TRUE>>
    /\ EventsOf(2, "DoTest") # {}
    /\ Logged("execution regressed by") # {}
    /\ status = 1

\* C20: DoQuery runs A before B and calls DoTest only after both runs returned;
\* after a failed run the query is not compared; with fatal_dbbench_errors the
\* process exits at once with status 1 and no later query is run, without it
\* the query's result is false and the later queries are run.
C20_DoQueryErrors ==
    program = "abtest" =>
        /\ \A i \in DOMAIN trace :
            /\ trace[i].step = "B" =>
                (i > 1 /\ trace[i - 1] \in
                    {Event(trace[i].query, "A", TRUE, s) : s \in RunStats})
            /\ trace[i].step = "DoTest" =>
                (i > 2 /\ trace[i - 1].step = "B" /\ trace[i - 1].ok
                       /\ trace[i - 1].query = trace[i].query
                       /\ trace[i - 2].step = "A" /\ trace[i - 2].ok
                       /\ trace[i - 2].query = trace[i].query)
            /\ ~trace[i].ok =>
                /\ EventsOf(trace[i].query, "DoTest") = {}
                /\ fatal_dbbench_errors =>
                    /\ i = Len(trace)
                    /\ pc \in {"except", "exited"}
                    /\ Len(results) = trace[i].query - 1
                    /\ pc = "exited" => status = 1
                /\ (~fatal_dbbench_errors /\ Len(results) >= trace[i].query) =>
                    results[trace[i].query] = FALSE
        /\ (FailedRuns # {} /\ pc = "exited") => status = 1
        /\ (~fatal_dbbench_errors /\ pc = "exited") =>
            /\ Len(results) = Len(queries)
            /\ \A q \in DOMAIN queries : EventsOf(q, "A") # {}

\* C20 witness: with fatal_dbbench_errors the run of B failed for the first of
\* two queries and abtest exited with status 1 without running the second.
C20_Witness ==
    /\ program = "abtest"
    /\ fatal_dbbench_errors
    /\ pc = "exited"
    /\ status = 1
    /\ Len(queries) = 2
    /\ results = <<>>
    /\ Len(trace) = 2
    /\ trace[2].step = "B" /\ ~trace[2].ok
    /\ EventsOf(2, "A") = {}

\* The sample DoTest was given for a label.
SampleOf(group) == IF group = newGroup THEN newExecutions ELSE oldExecutions

\* C21: each line of the report pairs a group's label with the mean, the
\* half-width and the histogram of that group's own sample, and the two lines
\* are those of the two groups, although DoTest's (new, old) arguments land in
\* the (old, new) parameters of LogPerformanceStats.
C21_LabelWithOwnData ==
    AfterReport =>
        /\ {log[1].group, log[2].group} = {newGroup, oldGroup}
        /\ \A i \in 1..2 :
            LET line == log[i]
                sample == SampleOf(line.group)
                nb == args.histogram_buckets
            IN  /\ line.data.mean = <<SeqSum(sample), Len(sample)>>
                /\ line.data.error = GetConfidenceIntervalWidth(sample, args.confidence)
                /\ line.data.hist = GetHistogramString(sample, limits.new, nb)
                /\ \A b \in 1..nb :
                    line.data.hist.glyphs[b] > 0 <=>
                        \E k \in DOMAIN sample : BinOf(sample[k], limits.new, nb) = b

\* C21 witness: a report of two samples with different means and different
\* histograms; the first line is the old group's, the second the new group's.
C21_Witness ==
    /\ AfterReport
    /\ log[1].group = oldGroup
    /\ log[2].group = newGroup
    /\ SeqSum(newExecutions) * Len(oldExecutions) # SeqSum(oldExecutions) * Len(newExecutions)
    /\ log[1].data.hist.glyphs # log[2].data.hist.glyphs
    /\ log[1].data.error # log[2].data.error

\* C22: when the t-test returns NaN (a group of one observation, or two groups
\* of zero variance and equal means) CheckMean takes the result as not
\* significant: it logs that no conclusion can be made, passes and does not
\* raise; a NaN never fails the mean check.
C22_NaNPasses ==
    /\ (AfterMean /\ (Len(newExecutions) = 1 \/ Len(oldExecutions) = 1)) => p.nan
    /\ (AfterMean /\ Dev(newExecutions) = 0 /\ Dev(oldExecutions) = 0
            /\ SeqSum(newExecutions) * Len(oldExecutions)
                    = SeqSum(oldExecutions) * Len(newExecutions)) => p.nan
    /\ (AfterMean /\ p.nan) =>
        /\ Passed("mean")
        /\ ~Failed("mean")
        /\ Logged("execution had too much variance to make conclusion") # {}
        /\ Logged("execution regressed by") = {}
        /\ Logged("execution improved by") = {}
        /\ Logged("Means equal with significant p value") = {}
        /\ pc = "done" => verdict = Passed("variance")
    /\ Failed("mean") => ~p.nan

\* C22 witness: the t-test returned NaN for a new group of one observation
\* whose mean is above the old group's, and the mean check passed.
C22_Witness ==
    /\ AfterMean
    /\ p.nan
    /\ Len(newExecutions) = 1
    /\ Len(oldExecutions) >= 2
    /\ SeqSum(newExecutions) * Len(oldExecutions) > SeqSum(oldExecutions) * Len(newExecutions)
    /\ Passed("mean")

====
